---- MODULE Spec2Model ----
(***************************************************************************)
(* The Informer of protoblast (src/lib/informer.js): a queryable event     *)
(* emitter.  Every method is an operator from a world (the emitter's       *)
(* fields, the closures created by many/after, the dispatch contexts) to   *)
(* the world after it; the calls it makes are run to their end before the  *)
(* action returns, so one action is one whole top-level call with          *)
(* everything it runs synchronously.                                       *)
(***************************************************************************)
EXTENDS Integers, Sequences, FiniteSets, TLC

VARIABLES
    simpleListeners,   \* this.simpleListeners: type name -> array of listeners
    filterListeners,   \* this.filterListeners: type name -> array of [listener, filter]
    listenTypes,       \* this.listenTypes
    simpleSeen,        \* this.simpleSeen: the type names marked true
    filterSeen,        \* this.filterSeen
    wrappers,          \* the closures g of many/after that the registry holds
    contexts,          \* the contexts the last call gave its listeners
    emissions,         \* the local variables of each emit run by the last call
    log,               \* what the last call invoked, in order
    op,                \* the last call
    removed,           \* <<T, L>>: L, subscribed with on(T, L), was removed with
                       \* removeListener(T, L) and not subscribed to T since
    fixture            \* the user functions and type names this run uses

vars == <<simpleListeners, filterListeners, listenTypes, simpleSeen, filterSeen,
          wrappers, contexts, emissions, log, op, removed, fixture>>

(***************************************************************************)
(* Values.                                                                 *)
(***************************************************************************)

\* The most entries the registry holds (simple and filter entries together).
MaxEntries == 2

\* The most filters this.filterSeen holds: no filter is queried past that.
MaxSeen == 1

\* A JavaScript value: a string, an object (a map from keys to values), a
\* function (named by the user function it is; g = 1 for a closure that
\* many/after made around it), an error, a boolean, or undefined.
StrV(s) == [t |-> "string", s |-> s, obj |-> <<>>, g |-> 0]
ObjV(o) == [t |-> "object", s |-> "", obj |-> o, g |-> 0]
FnV(f, g) == [t |-> "function", s |-> f, obj |-> <<>>, g |-> g]
ErrV(e) == [t |-> "error", s |-> e, obj |-> <<>>, g |-> 0]
BoolV(b) == [t |-> "boolean", s |-> IF b THEN "true" ELSE "false", obj |-> <<>>, g |-> 0]
UndefV == [t |-> "undefined", s |-> "", obj |-> <<>>, g |-> 0]

\* Values of filter keys.  A number n is written "#n", so that the string
\* '5' and the number 5 are different values that compare loosely equal.
NumberValues == {"#5", "#6"}
ToPrimitive(v) == IF v = "#5" THEN "5" ELSE IF v = "#6" THEN "6" ELSE v
LooseEq(a, b) == ToPrimitive(a) = ToPrimitive(b)

\* typeof v === 'function'
IsFunction(v) == v.t = "function"

\* A value in a condition: undefined is falsy, an error or a true is truthy.
Truthy(v) == v.t \in {"error", "object", "function", "array"} \/ v = BoolV(TRUE)
               \/ (v.t = "string" /\ v.s # "")

\* The type name of a type argument.
TypeNameOf(type) ==
    IF type.t = "string" THEN type.s
    ELSE IF "type" \in DOMAIN type.obj /\ type.obj["type"] \notin NumberValues
         THEN type.obj["type"]
         ELSE ""

\* FilterMatches, were the keys compared with === instead of ==.
FilterMatchesStrictly(stored, other) ==
    \A key \in DOMAIN stored : key \in DOMAIN other /\ stored[key] = other[key]

\* Every key of the stored filter is loosely equal in the other object.
FilterMatches(stored, other) ==
    \A key \in DOMAIN stored :
        key \in DOMAIN other /\ LooseEq(stored[key], other[key])

\* A listener function: a user function fn, or (g > 0) the closure g that
\* many/after made around it, whose g.listener is fn.
Plain(fn) == [fn |-> fn, g |-> 0]
Wrapped(fn, g) == [fn |-> fn, g |-> g]

\* A user function that is not callable (typeof listener !== 'function').
NotAFunction == "null"

\* Callable, were typeof listener not looked at.
AnyListener(listener) == TRUE
Callable(listener) == listener.fn # NotAFunction

\* The second argument of many/after: a number, or already the listener.
NoTimes == [given |-> FALSE, n |-> 0]
Times(n) == [given |-> TRUE, n |-> n]

\* Array.prototype.last
last(arr) == IF Len(arr) = 0 THEN UndefV ELSE arr[Len(arr)]

RECURSIVE ConcatAll(_)
ConcatAll(ss) == IF Len(ss) = 0 THEN <<>> ELSE Head(ss) \o ConcatAll(Tail(ss))

RemoveAt(s, i) == SubSeq(s, 1, i - 1) \o SubSeq(s, i + 1, Len(s))

Has(obj, key) == key \in DOMAIN obj

\* obj[key] = value, on an object that may not have the key yet.
Put(obj, key, value) ==
    [k \in DOMAIN obj \cup {key} |-> IF k = key THEN value ELSE obj[k]]

(***************************************************************************)
(* The world an operator works on.                                         *)
(***************************************************************************)

World ==
    [simpleListeners |-> simpleListeners, filterListeners |-> filterListeners,
     listenTypes |-> listenTypes, simpleSeen |-> simpleSeen,
     filterSeen |-> filterSeen, wrappers |-> wrappers,
     contexts |-> <<>>, emissions |-> <<>>, log |-> <<>>, thrown |-> "",
     busy |-> FALSE, stack |-> <<>>, result |-> FALSE]

\* An exception leaves the running call: nothing more of it is executed.
Throw(w, err) == [w EXCEPT !.thrown = err, !.stack = <<>>]

(***************************************************************************)
(* The seen-event tracker and the query engine.                            *)
(***************************************************************************)

\* TypesToSearch, were the nameless filter listeners left out for a filter
\* that has a type.
TypesOfThatName(w, typeName) ==
    IF typeName # "" THEN <<typeName>> ELSE w.listenTypes

\* The type names whose filter listeners a filter is compared with.
TypesToSearch(w, typeName) ==
    IF typeName # "" THEN <<typeName, "">> ELSE w.listenTypes

\* The entries of filterListeners[t] whose stored filter the filter matches.
MatchingEntries(w, t, filter) ==
    IF ~Has(w.filterListeners, t) THEN <<>>
    ELSE LET Matches(entry) == FilterMatches(entry.filter, filter)
         IN  SelectSeq(w.filterListeners[t], Matches)

hasBeenSeen(w, type) ==
    IF type.t = "string" THEN type.s \in w.simpleSeen
    ELSE LET types == TypesToSearch(w, TypeNameOf(type))
         IN  \E i \in 1..Len(types) : Len(MatchingEntries(w, types[i], type.obj)) > 0

\* queryListeners, were a type marked as seen only when a listener is found.
queryListenersHeard(w, type) ==
    LET typeName == TypeNameOf(type)
        hasFilter == type.t # "string"
        types == TypesToSearch(w, typeName)
        found == ConcatAll([i \in 1..Len(types) |->
                              MatchingEntries(w, types[i], type.obj)])
        filtered == IF hasFilter
                    THEN [j \in 1..Len(found) |-> found[j].listener]
                    ELSE <<>>
        simple == IF typeName # "" /\ Has(w.simpleListeners, typeName)
                  THEN w.simpleListeners[typeName]
                  ELSE <<>>
    IN  [w |-> IF Len(filtered \o simple) = 0 THEN w
               ELSE [w EXCEPT !.simpleSeen = @ \cup {typeName},
                              !.filterSeen = IF hasFilter THEN Append(@, type.obj) ELSE @],
         typeName |-> typeName,
         hasFilter |-> hasFilter,
         filter |-> type.obj,
         list |-> filtered \o simple]

\* The result of queryListeners without its first two slots: the type name,
\* the filter (hasFilter: whether there is one), and the listeners found, in
\* the order found.  w is the world with the type marked as seen.
queryListeners(w, type) ==
    LET typeName == TypeNameOf(type)
        hasFilter == type.t # "string"
        types == TypesToSearch(w, typeName)
        found == ConcatAll([i \in 1..Len(types) |->
                              MatchingEntries(w, types[i], type.obj)])
        filtered == IF hasFilter
                    THEN [j \in 1..Len(found) |-> found[j].listener]
                    ELSE <<>>
        simple == IF typeName # "" /\ Has(w.simpleListeners, typeName)
                  THEN w.simpleListeners[typeName]
                  ELSE <<>>
    IN  [w |-> [w EXCEPT !.simpleSeen = @ \cup {typeName},
                         !.filterSeen = IF hasFilter THEN Append(@, type.obj) ELSE @],
         typeName |-> typeName,
         hasFilter |-> hasFilter,
         filter |-> type.obj,
         list |-> filtered \o simple]

\* listeners(type): queryListeners(type).slice(2)
listeners(w, type) == queryListeners(w, type)

(***************************************************************************)
(* Calls in progress.  A call that a method or a listener makes is pushed  *)
(* on the world's stack as a frame, followed by the frame of what the      *)
(* caller does once the call has returned; Run executes frames until none  *)
(* is left.  An exception unwinds them all: the source catches nothing.    *)
(***************************************************************************)

Push(w, frames) == [w EXCEPT !.stack = frames \o @]

FEmit(type, args) == [pc |-> "emit", type |-> type, args |-> args]
FSeries(em, k) == [pc |-> "series", em |-> em, k |-> k]
FCall(listener, cid, args) ==
    [pc |-> "call", listener |-> listener, cid |-> cid, args |-> args]
FBody(fn, cid, event) == [pc |-> "body", fn |-> fn, cid |-> cid, event |-> event]
FReturned(em, k, cid) == [pc |-> "returned", em |-> em, k |-> k, cid |-> cid]
FSubtask(em, cid) == [pc |-> "subtask", em |-> em, cid |-> cid]
FIdle == [pc |-> "idle"]
FAddListener(type, listener) ==
    [pc |-> "addListener", type |-> type, listener |-> listener]
FAppend(type, listener) == [pc |-> "append", type |-> type, listener |-> listener]
FRemoveListener(type, listener) ==
    [pc |-> "removeListener", type |-> type, listener |-> listener]
FRemoveSimple(type, listener, i) ==
    [pc |-> "removeSimple", type |-> type, listener |-> listener, i |-> i]
FRemoveFiltered(type, listener, i) ==
    [pc |-> "removeFiltered", type |-> type, listener |-> listener, i |-> i]
FRemoveAllFiltered(type) == [pc |-> "removeAllFiltered", type |-> type]
FRemoveAllListeners(type) == [pc |-> "removeAllListeners", type |-> type]
FMany(type, times, listener) ==
    [pc |-> "many", type |-> type, times |-> times, listener |-> listener]
FAfter(type, times, listener) ==
    [pc |-> "after", type |-> type, times |-> times, listener |-> listener]
FAfterOnce(type, times, listener) ==
    [pc |-> "afterOnce", type |-> type, times |-> times, listener |-> listener]
FAfterSeen(type, gid) == [pc |-> "afterSeen", type |-> type, gid |-> gid]
FEmitOnce(type, data) == [pc |-> "emitOnce", type |-> type, data |-> data]
FHasBeenSeen(type) == [pc |-> "hasBeenSeen", type |-> type]
FListeners(type) == [pc |-> "listeners", type |-> type]

\* The type names, in a fixed order.
TypeNames == <<"", "t", "u", "newListener", "removeListener", "error">>

ListOf(obj, key) == IF Has(obj, key) THEN obj[key] ELSE <<>>

\* The listeners the registry holds, simple ones first.
Registered(w) ==
    ConcatAll([i \in 1..Len(TypeNames) |-> ListOf(w.simpleListeners, TypeNames[i])])
    \o ConcatAll([i \in 1..Len(TypeNames) |->
                    LET list == ListOf(w.filterListeners, TypeNames[i])
                    IN  [j \in 1..Len(list) |-> list[j].listener]])

(***************************************************************************)
(* Dispatch contexts, the log, and the user's listener functions.          *)
(***************************************************************************)

\* filter of queryListeners and of after: undefined for a string type.
FilterOf(type) == IF type.t = "string" THEN UndefV ELSE type

\* context = Object.create(that) with type and filter set; emit also gives
\* it wait (hasWait), after gives it past.
NewContext(em, typeName, filter, hasWait, past) ==
    [em |-> em, type |-> typeName, filter |-> filter,
     hasWait |-> hasWait, past |-> past,
     waited |-> FALSE, async |-> "", ListenerIsDone |-> FALSE, err |-> UndefV,
     ListenerCallback |-> 0, ListenerSaysStop |-> FALSE]

\* One invocation of a user function: by emission em (0: by after itself),
\* with context ctx; by, times, fired tell the closure g that made the call
\* (by = "many" or "after"; "": called directly), fired counting this call.
CallEvent(fn, em, ctx, args, past, by, times, fired) ==
    [ev |-> "call", fn |-> fn, em |-> em, ctx |-> ctx, args |-> args,
     past |-> past, by |-> by, times |-> times, fired |-> fired]

\* emit is called with a type whose type name is typeName.
EmitEvent(typeName, args) ==
    [ev |-> "emit", fn |-> typeName, em |-> 0, ctx |-> 0, args |-> args,
     past |-> FALSE, by |-> "", times |-> 0, fired |-> 0]

\* The listener called with context ctx has returned to doListener.
ReturnEvent(em, ctx) ==
    [ev |-> "return", fn |-> "", em |-> em, ctx |-> ctx, args |-> <<>>,
     past |-> FALSE, by |-> "", times |-> 0, fired |-> 0]

\* The function that wait returned to the listener of context ctx is called.
DoneEvent(em, ctx) ==
    [ev |-> "done", fn |-> "", em |-> em, ctx |-> ctx, args |-> <<>>,
     past |-> FALSE, by |-> "", times |-> 0, fired |-> 0]

\* A listener has counted the listeners the registry holds: n.
HeldEvent(em, ctx, n) ==
    [ev |-> "held", fn |-> "", em |-> em, ctx |-> ctx, args |-> <<>>,
     past |-> FALSE, by |-> "", times |-> n, fired |-> 0]

\* cb(err, shouldBeStopped)
CallbackEvent(cb, em, args) ==
    [ev |-> "cb", fn |-> cb.s, em |-> em, ctx |-> 0, args |-> args,
     past |-> FALSE, by |-> "", times |-> 0, fired |-> 0]

parallelDone(w, emId, subErr) ==
    LET em == w.emissions[emId]
        err == IF Truthy(em.err) /\ Truthy(subErr)
               THEN [t |-> "array", s |-> "", obj |-> <<em.err.s, subErr.s>>, g |-> 0]
               ELSE em.err
    IN  [w EXCEPT !.log = Append(@, CallbackEvent(last(em.args), emId,
                                                  <<err, em.shouldBeStopped>>))]

\* nextSub of the parallel runner: the subtask of context cid has ended.
\* When every subtask of the emission has, parallelDone runs.
nextSub(w, emId, cid, err) ==
    LET em == w.emissions[emId]
        subErr == IF Truthy(em.subErr) THEN em.subErr ELSE err
        w1 == [w EXCEPT !.emissions[emId].reported = @ \cup {cid},
                        !.emissions[emId].subErr = subErr]
    IN  IF w1.emissions[emId].reported = {em.subtasks[j] : j \in 1..Len(em.subtasks)}
        THEN parallelDone(w1, emId, subErr)
        ELSE w1

\* The function wait returns: next(err).
next(w, cid, err) ==
    LET w1 == [w EXCEPT !.contexts[cid].err = err,
                        !.contexts[cid].ListenerIsDone = TRUE,
                        !.log = Append(@, DoneEvent(w.contexts[cid].em, cid))]
        waiting == w.contexts[cid].ListenerCallback
    IN  IF waiting # 0 THEN nextSub(w1, waiting, cid, err) ELSE w1

\* this.wait(type) in a listener: a context that after made has no wait.
wait(w, cid, type) ==
    IF ~w.contexts[cid].hasWait THEN Throw(w, "TypeError")
    ELSE [w EXCEPT !.contexts[cid].async = type, !.contexts[cid].waited = TRUE]

\* What stop does to the context it is called on.
stop(w, cid) == [w EXCEPT !.contexts[cid].ListenerSaysStop = TRUE]

\* this.stop() in a listener: the context is Object.create(that) with type,
\* filter and wait; no stop is put on it or on the emitter.
CallStop(w, cid) == Throw(w, "TypeError")

\* The user functions, called with context cid.  A and B only return.  S
\* asks to be waited for in series and P, Q in parallel; each calls its
\* completion function later.  N calls this.wait('series')() before it
\* returns.  Xcall calls this.stop(); Xflag sets the flag stop sets.
\* E emits 't' again, unless it is already doing so.  R removes the
\* listener B of 't'; D subscribes B to 't' unless B is subscribed to it.
\* W counts the listeners that this.simpleListeners and this.filterListeners
\* hold.
Body(w, fn, cid, event) ==
    LET w0 == [w EXCEPT !.log = Append(@, event)]
    IN  CASE fn = "S" -> wait(w0, cid, "series")
          [] fn \in {"P", "Q"} -> wait(w0, cid, "parallel")
          [] fn = "N" -> LET w1 == wait(w0, cid, "series")
                         IN  IF w1.thrown # "" THEN w1 ELSE next(w1, cid, UndefV)
          [] fn = "Xcall" -> CallStop(w0, cid)
          [] fn = "Xflag" -> stop(w0, cid)
          [] fn = "E" -> IF w0.busy THEN w0
                         ELSE Push([w0 EXCEPT !.busy = TRUE],
                                   <<FEmit(StrV("t"), <<>>), FIdle>>)
          [] fn = "W" -> [w0 EXCEPT !.log = Append(@, HeldEvent(w0.contexts[cid].em, cid,
                                                                Len(Registered(w0))))]
          [] fn = "R" -> Push(w0, <<FRemoveListener(StrV("t"), Plain("B"))>>)
          [] fn = "D" -> IF /\ Has(w0.simpleListeners, "t")
                            /\ \E n \in 1..Len(w0.simpleListeners["t"]) :
                                  w0.simpleListeners["t"][n] = Plain("B")
                         THEN w0
                         ELSE Push(w0, <<FAddListener(StrV("t"), Plain("B"))>>)
          [] OTHER -> w0

\* ++fired == times only asks whether fired has just reached times: a count
\* past times (or, with times <= 0, past 0) is kept as the first such count.
CapFired(fired, times) ==
    IF times > 0 THEN (IF fired > times THEN times + 1 ELSE fired)
    ELSE (IF fired > 0 THEN 1 ELSE 0)

\* The closure g of many and of after, called with context cid.
g(w, gid, cid, args) ==
    LET wr == w.wrappers[gid]
        fired == wr.fired + 1
        ctx == w.contexts[cid]
        w1 == [w EXCEPT !.wrappers[gid].fired = CapFired(fired, wr.times)]
        event == CallEvent(wr.listener, ctx.em, cid, args, ctx.past, wr.by,
                           wr.times, CapFired(fired, wr.times))
    IN  IF fired = wr.times
        THEN Push(w1, <<FRemoveListener(wr.type, Wrapped(wr.listener, gid)),
                        FBody(wr.listener, cid, event)>>)
        ELSE Body(w1, wr.listener, cid, event)

\* listener.call(context, args...)
Call(w, listener, cid, args) ==
    IF listener.g > 0 THEN g(w, listener.g, cid, args)
    ELSE Body(w, listener.fn, cid,
              CallEvent(listener.fn, w.contexts[cid].em, cid, args,
                        w.contexts[cid].past, "", 0, 0))

(***************************************************************************)
(* The dispatch engine.                                                    *)
(***************************************************************************)

\* What a task of the series runner finds as its `this`.  The runner is
\* handed plain functions and calls them as such, so `this` is the default
\* receiver and not the context the listener ran with: it has no
\* ListenerSaysStop, no type and no ListenerIsDone, whatever the listener did.
TaskThis(context) ==
    [ListenerSaysStop |-> FALSE, type |-> "", ListenerIsDone |-> FALSE]

\* The arguments a listener is called with, by the number of arguments of
\* emit (the type included).
CallArgs(argLength, args) ==
    CASE argLength = 1 -> <<>>
      [] argLength = 2 -> <<args[1]>>
      [] argLength = 3 -> <<args[1], args[2]>>
      [] OTHER -> args

\* listeners.forEach(eachListener): one task per listener found, unless
\* shouldBeStopped is set at that moment, which is before any task has run.
eachListener(list, shouldBeStopped) ==
    IF Truthy(shouldBeStopped) THEN <<>> ELSE [k \in 1..Len(list) |-> k]

\* parallelHandler(nextSub), for the subtask of context cid.
parallelHandler(w, emId, cid) ==
    IF w.contexts[cid].ListenerIsDone
    THEN nextSub(w, emId, cid, w.contexts[cid].err)
    ELSE [w EXCEPT !.contexts[cid].ListenerCallback = emId]

\* The parallel runner on the emission's subtasks, from the j-th on.
RECURSIVE parallel(_, _, _)
parallel(w, emId, j) ==
    IF j > Len(w.emissions[emId].subtasks) THEN w
    ELSE parallel(parallelHandler(w, emId, w.emissions[emId].subtasks[j]),
                  emId, j + 1)

seriesDone(w, emId, err) ==
    LET em == w.emissions[emId]
        cb == last(em.args)
    IN  IF ~em.isAsync
        THEN (IF Truthy(err) THEN Throw(w, err.s) ELSE w)
        ELSE IF ~IsFunction(cb)
        THEN (IF Truthy(err) THEN Throw(w, err.s) ELSE w)
        ELSE IF Len(em.subtasks) = 0
        THEN [w EXCEPT !.log = Append(@, CallbackEvent(cb, emId,
                                             <<err, em.shouldBeStopped>>))]
        ELSE parallel([w EXCEPT !.emissions[emId].err = err], emId, 1)

\* doListener, were listeners[index] read from the registry when the task
\* runs: a listener no longer there is not called.
doListenerLive(w, emId, k) ==
    LET em == w.emissions[emId]
        cid == Len(w.contexts) + 1
        context == NewContext(emId, em.typeName, em.filter, TRUE, FALSE)
        live == IF Has(w.simpleListeners, em.typeName)
                THEN w.simpleListeners[em.typeName] ELSE <<>>
    IN  IF em.hasFilter \/ em.tasks[k] > Len(live)
        THEN Push(w, <<FSeries(emId, k + 1)>>)
        ELSE Push([w EXCEPT !.contexts = Append(@, context)],
                  <<FCall(live[em.tasks[k]], cid, CallArgs(Len(em.args) + 1, em.args)),
                    FReturned(emId, k, cid)>>)

\* The k-th task of the emission, doListener(next), up to the call of the
\* listener.
doListener(w, emId, k) ==
    LET em == w.emissions[emId]
        cid == Len(w.contexts) + 1
        context == NewContext(emId, em.typeName, em.filter, TRUE, FALSE)
    IN  Push([w EXCEPT !.contexts = Append(@, context)],
             <<FCall(em.list[em.tasks[k]], cid, CallArgs(Len(em.args) + 1, em.args)),
               FReturned(emId, k, cid)>>)

\* doListener once the listener has returned.  next() runs the rest of the
\* tasks before it returns.
doListenerReturned(w, emId, k, cid) ==
    LET this == TaskThis(w.contexts[cid])
        w1 == [w EXCEPT
                 !.log = Append(@, ReturnEvent(emId, cid)),
                 !.emissions[emId].shouldBeStopped =
                     IF this.ListenerSaysStop THEN BoolV(TRUE) ELSE @,
                 !.emissions[emId].isAsync =
                     IF this.type # "" THEN TRUE ELSE @]
    IN  IF this.type = "" \/ this.ListenerIsDone
        THEN Push(w1, <<FSeries(emId, k + 1)>>)
        ELSE IF this.type = "series"
        THEN [w1 EXCEPT !.emissions[emId].held = TRUE]
        ELSE Push(w1, <<FSeries(emId, k + 1), FSubtask(emId, cid)>>)

\* The series runner: the tasks one at a time, in order, at once; a task's
\* next() runs the next task, the last one's runs seriesDone.
series(w, emId, k) ==
    IF k > Len(w.emissions[emId].tasks)
    THEN seriesDone(w, emId, UndefV)
    ELSE doListener(w, emId, k)

\* UncaughtError, were the argument never looked at.
UnspecifiedError(args) == "TypeError"

\* What emit('error', ...) throws when it finds no listener.
UncaughtError(args) ==
    IF Len(args) > 0 /\ args[1].t = "error" THEN args[1].s ELSE "TypeError"

\* emit, were it to throw for any type it finds no listener for.
emitUnheardThrows(w, type, args) ==
    LET q == queryListeners([w EXCEPT !.log = Append(@, EmitEvent(TypeNameOf(type), args))],
                            type)
        emId == Len(q.w.emissions) + 1
        em == [typeName |-> q.typeName, hasFilter |-> q.hasFilter,
               filter |-> FilterOf(type), args |-> args, list |-> q.list,
               tasks |-> eachListener(q.list, UndefV),
               isAsync |-> FALSE, shouldBeStopped |-> UndefV,
               subtasks |-> <<>>, reported |-> {}, subErr |-> UndefV,
               err |-> UndefV, held |-> FALSE]
    IN  IF Len(q.list) = 0
        THEN Throw(q.w, UncaughtError(args))
        ELSE Push([q.w EXCEPT !.emissions = Append(@, em)], <<FSeries(emId, 1)>>)

emit(w, type, args) ==
    LET q == queryListeners([w EXCEPT !.log = Append(@, EmitEvent(TypeNameOf(type), args))],
                            type)
        emId == Len(q.w.emissions) + 1
        em == [typeName |-> q.typeName, hasFilter |-> q.hasFilter,
               filter |-> FilterOf(type), args |-> args, list |-> q.list,
               tasks |-> eachListener(q.list, UndefV),
               isAsync |-> FALSE, shouldBeStopped |-> UndefV,
               subtasks |-> <<>>, reported |-> {}, subErr |-> UndefV,
               err |-> UndefV, held |-> FALSE]
    IN  IF type = StrV("error") /\ Len(q.list) = 0
        THEN Throw(q.w, UncaughtError(args))
        ELSE IF Len(q.list) = 0 THEN q.w
        ELSE Push([q.w EXCEPT !.emissions = Append(@, em)], <<FSeries(emId, 1)>>)

emitOnce(w, type, data) ==
    IF ~hasBeenSeen(w, type) THEN Push(w, <<FEmit(type, <<data>>)>>) ELSE w

(***************************************************************************)
(* The listener registry.                                                  *)
(***************************************************************************)

\* addListener from `if (!target[typeName])` on.
AppendListener(w, type, listener) ==
    LET simple == type.t = "string"
        typeName == TypeNameOf(type)
        target == IF simple THEN w.simpleListeners ELSE w.filterListeners
        isNew == ~Has(target, typeName)
        list == IF isNew THEN <<>> ELSE target[typeName]
    IN  IF simple
        THEN [w EXCEPT
                !.simpleListeners = Put(@, typeName, Append(list, listener)),
                !.listenTypes = IF isNew THEN Append(@, typeName) ELSE @]
        ELSE [w EXCEPT
                !.filterListeners =
                    Put(@, typeName,
                        Append(list, [listener |-> listener, filter |-> type.obj])),
                !.listenTypes = IF isNew THEN Append(@, typeName) ELSE @]

\* addListener, were newListener emitted once the listener is appended.
addListenerThenNotify(w, type, listener) ==
    IF ~Callable(listener) THEN Throw(w, "TypeError")
    ELSE IF Has(w.simpleListeners, "newListener")
            \/ Has(w.filterListeners, "newListener")
    THEN Push(w, <<FAppend(type, listener),
                   FEmit(StrV("newListener"),
                         <<type, FnV(listener.fn, 0), StrV(TypeNameOf(type))>>)>>)
    ELSE AppendListener(w, type, listener)

addListener(w, type, listener) ==
    IF ~Callable(listener) THEN Throw(w, "TypeError")
    ELSE IF Has(w.simpleListeners, "newListener")
            \/ Has(w.filterListeners, "newListener")
    THEN Push(w, <<FEmit(StrV("newListener"),
                         <<type, FnV(listener.fn, 0), StrV(TypeNameOf(type))>>),
                   FAppend(type, listener)>>)
    ELSE AppendListener(w, type, listener)

\* listeners[i] == listenerToRemove || listeners[i].listener == listenerToRemove
IsListener(entry, listenerToRemove) ==
    \/ entry = listenerToRemove
    \/ entry.g > 0 /\ listenerToRemove = Plain(entry.fn)

\* The loop of removeListener, were it to end at the first listener it
\* removes.
RemoveFirstMet(w, type, listenerToRemove, i) ==
    IF i < 1 THEN w
    ELSE LET list == w.simpleListeners[type.s]
         IN  IF i > Len(list) THEN Throw(w, "TypeError")
             ELSE IF list[i] = listenerToRemove
                     \/ (list[i].g > 0 /\ listenerToRemove = Plain(list[i].fn))
             THEN [w EXCEPT !.simpleListeners[type.s] = RemoveAt(@, i)]
             ELSE Push(w, <<FRemoveSimple(type, listenerToRemove, i - 1)>>)

\* One turn of the loop of removeListener over simpleListeners[type], at
\* index i (counted from 1), downwards.  The array is the registry's own.
RemoveSimple(w, type, listenerToRemove, i) ==
    IF i < 1 THEN w
    ELSE LET list == w.simpleListeners[type.s]
         IN  IF i > Len(list) THEN Throw(w, "TypeError")
             ELSE IF IsListener(list[i], listenerToRemove)
             THEN Push([w EXCEPT !.simpleListeners[type.s] = RemoveAt(@, i)],
                       (IF Has(w.simpleListeners, "removeListener")
                        THEN <<FEmit(StrV("removeListener"),
                                     <<type, FnV(list[i].fn,
                                                 IF list[i].g > 0 THEN 1 ELSE 0)>>)>>
                        ELSE <<>>)
                       \o <<FRemoveSimple(type, listenerToRemove, i - 1)>>)
             ELSE Push(w, <<FRemoveSimple(type, listenerToRemove, i - 1)>>)

\* RemoveFiltered, were the filters not compared.
RemoveWhateverFilter(w, type, listenerToRemove, i) ==
    IF i < 1 THEN w
    ELSE LET typeName == TypeNameOf(type)
             list == w.filterListeners[typeName]
         IN  IF i > Len(list) THEN Throw(w, "TypeError")
             ELSE IF IsListener(list[i].listener, listenerToRemove)
             THEN Push([w EXCEPT !.filterListeners[typeName] = RemoveAt(@, i)],
                       <<FRemoveFiltered(type, listenerToRemove, i - 1)>>)
             ELSE Push(w, <<FRemoveFiltered(type, listenerToRemove, i - 1)>>)

\* The same for filterListeners[typeName].
RemoveFiltered(w, type, listenerToRemove, i) ==
    IF i < 1 THEN w
    ELSE LET typeName == TypeNameOf(type)
             list == w.filterListeners[typeName]
         IN  IF i > Len(list) THEN Throw(w, "TypeError")
             ELSE IF IsListener(list[i].listener, listenerToRemove)
                     /\ (type.obj = list[i].filter
                         \/ FilterMatches(list[i].filter, type.obj))
             THEN Push([w EXCEPT !.filterListeners[typeName] = RemoveAt(@, i)],
                       (IF Has(w.simpleListeners, "removeListener")
                        THEN <<FEmit(StrV("removeListener"),
                                     <<type, [t |-> "array", s |-> list[i].listener.fn,
                                              obj |-> list[i].filter, g |-> 0]>>)>>
                        ELSE <<>>)
                       \o <<FRemoveFiltered(type, listenerToRemove, i - 1)>>)
             ELSE Push(w, <<FRemoveFiltered(type, listenerToRemove, i - 1)>>)

removeListener(w, type, listenerToRemove) ==
    IF ~Callable(listenerToRemove) THEN Throw(w, "TypeError")
    ELSE IF type.t = "string"
    THEN (IF Has(w.simpleListeners, type.s)
          THEN RemoveSimple(w, type, listenerToRemove,
                            Len(w.simpleListeners[type.s]))
          ELSE w)
    ELSE (IF Has(w.filterListeners, TypeNameOf(type))
          THEN RemoveFiltered(w, type, listenerToRemove,
                              Len(w.filterListeners[TypeNameOf(type)]))
          ELSE w)

\* this.removeListener(list[i][1], list[i][0]) for every entry of the list.
RemoveEachFiltered(list) ==
    [i \in 1..Len(list) |-> FRemoveListener(ObjV(list[i].filter), list[i].listener)]

\* removeAllListeners(type) for a string, from the filter listeners on.
removeAllFiltered(w, type) ==
    IF ~Has(w.filterListeners, type.s) THEN w
    ELSE Push(w, RemoveEachFiltered(w.filterListeners[type.s]))

removeAllListeners(w, type) ==
    IF type.t = "string"
    THEN LET list == IF Has(w.simpleListeners, type.s)
                     THEN w.simpleListeners[type.s] ELSE <<>>
         IN  Push(w, [i \in 1..Len(list) |-> FRemoveListener(type, list[i])]
                     \o <<FRemoveAllFiltered(type)>>)
    ELSE LET typeName == TypeNameOf(type)
             Matches(entry) == type.obj = entry.filter
                               \/ FilterMatches(entry.filter, type.obj)
         IN  IF ~Has(w.filterListeners, typeName) THEN w
             ELSE Push(w, RemoveEachFiltered(
                              SelectSeq(w.filterListeners[typeName], Matches)))

\* A new closure g of many or after, not yet fired.
NewWrapper(w, by, type, times, listener) ==
    [w EXCEPT !.wrappers = Append(@, [by |-> by, type |-> type, times |-> times,
                                      fired |-> 0, listener |-> listener.fn])]

many(w, type, times, listener) ==
    IF ~Callable(listener) THEN Throw(w, "TypeError")
    ELSE Push(NewWrapper(w, "many", type, IF times.given THEN times.n ELSE 1, listener),
              <<FAddListener(type, Wrapped(listener.fn, Len(w.wrappers) + 1))>>)

\* after from `if (this.hasBeenSeen(type))` on.
afterSeen(w, type, gid) ==
    IF hasBeenSeen(w, type)
    THEN g([w EXCEPT !.contexts =
                Append(@, NewContext(0, TypeNameOf(type), FilterOf(type),
                                     FALSE, TRUE))],
           gid, Len(w.contexts) + 1, <<>>)
    ELSE w

after(w, type, times, listener) ==
    IF ~Callable(listener) THEN Throw(w, "TypeError")
    ELSE Push(NewWrapper(w, "after", type, IF times.given THEN times.n ELSE -1, listener),
              <<FAddListener(type, Wrapped(listener.fn, Len(w.wrappers) + 1)),
                FAfterSeen(type, Len(w.wrappers) + 1)>>)

afterOnce(w, type, times, listener) ==
    after(w, type, IF times.given THEN times ELSE Times(1), listener)

(***************************************************************************)
(* Running the frames.                                                     *)
(***************************************************************************)

Step(w, f) ==
    CASE f.pc = "emit" -> emit(w, f.type, f.args)
      [] f.pc = "series" -> series(w, f.em, f.k)
      [] f.pc = "call" -> Call(w, f.listener, f.cid, f.args)
      [] f.pc = "body" -> Body(w, f.fn, f.cid, f.event)
      [] f.pc = "returned" -> doListenerReturned(w, f.em, f.k, f.cid)
      [] f.pc = "subtask" -> [w EXCEPT !.emissions[f.em].subtasks = Append(@, f.cid)]
      [] f.pc = "idle" -> [w EXCEPT !.busy = FALSE]
      [] f.pc = "addListener" -> addListener(w, f.type, f.listener)
      [] f.pc = "append" -> AppendListener(w, f.type, f.listener)
      [] f.pc = "removeListener" -> removeListener(w, f.type, f.listener)
      [] f.pc = "removeSimple" -> RemoveSimple(w, f.type, f.listener, f.i)
      [] f.pc = "removeFiltered" -> RemoveFiltered(w, f.type, f.listener, f.i)
      [] f.pc = "removeAllFiltered" -> removeAllFiltered(w, f.type)
      [] f.pc = "removeAllListeners" -> removeAllListeners(w, f.type)
      [] f.pc = "many" -> many(w, f.type, f.times, f.listener)
      [] f.pc = "after" -> after(w, f.type, f.times, f.listener)
      [] f.pc = "afterOnce" -> afterOnce(w, f.type, f.times, f.listener)
      [] f.pc = "afterSeen" -> afterSeen(w, f.type, f.gid)
      [] f.pc = "emitOnce" -> emitOnce(w, f.type, f.data)
      [] f.pc = "hasBeenSeen" -> [w EXCEPT !.result = hasBeenSeen(w, f.type)]
      [] f.pc = "listeners" -> listeners(w, f.type).w

RECURSIVE Run(_)
Run(w) ==
    IF Len(w.stack) = 0 THEN w
    ELSE Run(Step([w EXCEPT !.stack = Tail(@)], Head(w.stack)))

\* The world after the call the frame stands for, made on the emitter as
\* it is.
Do(frame) == Run([World EXCEPT !.stack = <<frame>>])

(***************************************************************************)
(* The calls made on the emitter.                                          *)
(***************************************************************************)

\* The argument lists of emit after the type: none to three values, the
\* last of which may be a function.
X1 == <<StrV("x")>>
X2 == <<StrV("x"), StrV("y")>>
X3 == <<StrV("x"), StrV("y"), StrV("z")>>
Cb == FnV("cb", 0)

\* Filters: {type: 't', id: 5}, {type: 't', id: '5', x: '1'}, {x: '1'} and
\* {type: 't', id: 6}.
F5 == ObjV([type |-> "t", id |-> "#5"])
G5 == ObjV([type |-> "t", id |-> "5", x |-> "1"])
Hx == ObjV([x |-> "1"])
K6 == ObjV([type |-> "t", id |-> "#6"])

\* The filter {} and the filter {type: 't', x: '1'}.
E0 == ObjV(<<>>)
Gx == ObjV([type |-> "t", x |-> "1"])

\* What one run uses: user functions, types, how many entries less than
\* MaxEntries its registry holds, the methods called besides emit,
\* removeListener and removeAllListeners, values of times, argument lists.
Fixtures ==
    { [name |-> "plain", fns |-> {"A", "B"}, types |-> {StrV("t")},
       less |-> 0, subs |-> {"on"}, times |-> {NoTimes},
       args |-> {<<>>, X1, X2, X3}],
      [name |-> "empty", fns |-> {"A"}, types |-> {StrV(""), StrV("t")},
       less |-> 0, subs |-> {"on", "after", "emitOnce"}, times |-> {NoTimes},
       args |-> {<<>>, X1}],
      [name |-> "counted", fns |-> {"A", "E"}, types |-> {StrV("t")},
       less |-> 0, subs |-> {"on", "many", "after", "afterOnce"},
       times |-> {NoTimes, Times(2)},
       args |-> {<<>>, X1}],
      [name |-> "series", fns |-> {"S", "N", "B"}, types |-> {StrV("t")},
       less |-> 0, subs |-> {"on"}, times |-> {NoTimes},
       args |-> {<<>>, <<Cb>>}],
      [name |-> "parallel", fns |-> {"P", "Q"}, types |-> {StrV("t")},
       less |-> 0, subs |-> {"on"}, times |-> {NoTimes},
       args |-> {<<Cb>>, <<StrV("x"), Cb>>}],
      [name |-> "stop", fns |-> {"Xcall", "Xflag", "B"}, types |-> {StrV("t")},
       less |-> 0, subs |-> {"on"}, times |-> {NoTimes},
       args |-> {<<>>, <<Cb>>}],
      [name |-> "filter", fns |-> {"A"}, types |-> {F5, G5, K6},
       less |-> 1, subs |-> {"on", "hasBeenSeen"}, times |-> {NoTimes},
       args |-> {X1}],
      [name |-> "error", fns |-> {"A"}, types |-> {StrV("error"), StrV("u")},
       less |-> 1, subs |-> {"on"}, times |-> {NoTimes},
       args |-> {<<>>, <<ErrV("e")>>, X1, <<Cb>>}],
      [name |-> "notify", fns |-> {"A", NotAFunction},
       types |-> {StrV("newListener")},
       less |-> 1, subs |-> {"on", "many", "after", "afterOnce"},
       times |-> {NoTimes}, args |-> {<<>>}],
      [name |-> "seen", fns |-> {"A"}, types |-> {StrV("t")},
       less |-> 1, subs |-> {"on", "after", "hasBeenSeen", "listeners"},
       times |-> {NoTimes}, args |-> {<<>>}],
      [name |-> "unsubscribe", fns |-> {"A", "B"}, types |-> {F5, G5},
       less |-> 0, subs |-> {"on"},
       times |-> {NoTimes}, args |-> {<<>>}],
      [name |-> "unwrap", fns |-> {"A"}, types |-> {F5},
       less |-> 0, subs |-> {"on", "many", "after"},
       times |-> {NoTimes}, args |-> {<<>>}],
      [name |-> "nameless", fns |-> {"A"}, types |-> {StrV(""), Hx},
       less |-> 0, subs |-> {"on"},
       times |-> {NoTimes}, args |-> {<<>>}],
      [name |-> "announce", fns |-> {"W"},
       types |-> {StrV("newListener"), StrV("u")},
       less |-> 0, subs |-> {"on", "many", "after"},
       times |-> {NoTimes}, args |-> {<<>>}],
      [name |-> "anytype", fns |-> {"A"}, types |-> {StrV("t"), E0, Gx},
       less |-> 1, subs |-> {"on"},
       times |-> {NoTimes}, args |-> {X1}],
      [name |-> "mutate", fns |-> {"R", "D", "B"}, types |-> {StrV("t")},
       less |-> 0, subs |-> {"on", "many"},
       times |-> {NoTimes}, args |-> {<<>>}] }

\* The closures the registry still holds, renumbered in the order it holds
\* them: a closure it no longer holds can never be called again.
Renumbered(w) ==
    LET IsClosure(listener) == listener.g > 0
        held == SelectSeq(Registered(w), IsClosure)
        NewId(gid) == CHOOSE i \in 1..Len(held) : held[i].g = gid
        Renum(listener) == IF listener.g > 0
                           THEN Wrapped(listener.fn, NewId(listener.g))
                           ELSE listener
    IN  [w EXCEPT
           !.wrappers = [i \in 1..Len(held) |-> w.wrappers[held[i].g]],
           !.simpleListeners =
               [k \in DOMAIN @ |-> [j \in 1..Len(@[k]) |-> Renum(@[k][j])]],
           !.filterListeners =
               [k \in DOMAIN @ |->
                  [j \in 1..Len(@[k]) |->
                     [listener |-> Renum(@[k][j].listener),
                      filter |-> @[k][j].filter]]]]

\* The state after a call that left the world w.  For a removal, op.before
\* is the number of listeners the registry held when it was called.
Returns(w, call) ==
    LET r == Renumbered(w)
    IN  /\ simpleListeners' = r.simpleListeners
        /\ filterListeners' = r.filterListeners
        /\ listenTypes' = r.listenTypes
        /\ simpleSeen' = r.simpleSeen
        /\ filterSeen' = r.filterSeen
        /\ wrappers' = r.wrappers
        /\ contexts' = r.contexts
        /\ emissions' = r.emissions
        /\ log' = r.log
        /\ op' = [call EXCEPT
                    !.thrown = r.thrown, !.result = r.result,
                    !.before = IF call.name \in {"removeListener", "removeAllListeners"}
                               THEN Len(Registered(World)) ELSE 0]
        /\ removed' =
             LET now == IF call.type.t # "string" \/ r.thrown # "" THEN removed
                        ELSE IF call.name = "removeListener"
                        THEN (IF \E n \in 1..Len(ListOf(simpleListeners, call.type.s)) :
                                     simpleListeners[call.type.s][n] = Plain(call.listener)
                              THEN removed \cup {<<call.type.s, call.listener>>}
                              ELSE removed)
                        ELSE IF call.name \in {"on", "many", "after", "afterOnce"}
                        THEN removed \ {<<call.type.s, call.listener>>}
                        ELSE removed
             IN  {pair \in now :
                    \A n \in 1..Len(ListOf(r.simpleListeners, pair[1])) :
                       r.simpleListeners[pair[1]][n] # Plain(pair[2])}
        /\ fixture' = fixture

TheCall(name, type, listener, times, args) ==
    [name |-> name, type |-> type, listener |-> listener, times |-> times,
     args |-> args, thrown |-> "", result |-> FALSE, before |-> 0]

HasRoom == Len(Registered(World)) < MaxEntries - fixture.less

\* queryListeners(type) pushes a filter on this.filterSeen.
MayQuery(type) == type.t = "string" \/ Len(filterSeen) < MaxSeen

Init ==
    /\ simpleListeners = <<>>
    /\ filterListeners = <<>>
    /\ listenTypes = <<>>
    /\ simpleSeen = {}
    /\ filterSeen = <<>>
    /\ wrappers = <<>>
    /\ contexts = <<>>
    /\ emissions = <<>>
    /\ log = <<>>
    /\ op = TheCall("new", UndefV, "", NoTimes, <<>>)
    /\ removed = {}
    /\ fixture \in Fixtures

On ==
    \E type \in fixture.types, fn \in fixture.fns :
        /\ "on" \in fixture.subs
        /\ HasRoom \/ ~Callable(Plain(fn))
        /\ Returns(Do(FAddListener(type, Plain(fn))),
                   TheCall("on", type, fn, NoTimes, <<>>))

Many ==
    \E type \in fixture.types, fn \in fixture.fns, times \in fixture.times :
        /\ "many" \in fixture.subs
        /\ HasRoom \/ ~Callable(Plain(fn))
        /\ Returns(Do(FMany(type, times, Plain(fn))),
                   TheCall("many", type, fn, times, <<>>))

After ==
    \E type \in fixture.types, fn \in fixture.fns, times \in fixture.times :
        /\ "after" \in fixture.subs
        /\ HasRoom \/ ~Callable(Plain(fn))
        /\ Returns(Do(FAfter(type, times, Plain(fn))),
                   TheCall("after", type, fn, times, <<>>))

AfterOnce ==
    \E type \in fixture.types, fn \in fixture.fns, times \in fixture.times :
        /\ "afterOnce" \in fixture.subs
        /\ HasRoom \/ ~Callable(Plain(fn))
        /\ Returns(Do(FAfterOnce(type, times, Plain(fn))),
                   TheCall("afterOnce", type, fn, times, <<>>))

RemoveListener ==
    \E type \in fixture.types, fn \in fixture.fns :
        Returns(Do(FRemoveListener(type, Plain(fn))),
                TheCall("removeListener", type, fn, NoTimes, <<>>))

RemoveAllListeners ==
    \E type \in fixture.types :
        Returns(Do(FRemoveAllListeners(type)),
                TheCall("removeAllListeners", type, "", NoTimes, <<>>))

Emit ==
    \E type \in fixture.types, args \in fixture.args :
        /\ MayQuery(type)
        /\ Returns(Do(FEmit(type, args)),
                   TheCall("emit", type, "", NoTimes, args))

EmitOnce ==
    \E type \in fixture.types, args \in fixture.args :
        /\ "emitOnce" \in fixture.subs
        /\ MayQuery(type)
        /\ Len(args) = 1
        /\ Returns(Do(FEmitOnce(type, args[1])),
                   TheCall("emitOnce", type, "", NoTimes, args))

HasBeenSeen ==
    \E type \in fixture.types :
        /\ "hasBeenSeen" \in fixture.subs
        /\ Returns(Do(FHasBeenSeen(type)),
                   TheCall("hasBeenSeen", type, "", NoTimes, <<>>))

Listeners ==
    \E type \in fixture.types :
        /\ "listeners" \in fixture.subs
        /\ MayQuery(type)
        /\ Returns(Do(FListeners(type)),
                   TheCall("listeners", type, "", NoTimes, <<>>))

\* A listener that called wait calls the function wait returned, with no
\* argument or with an error.
Complete ==
    \E cid \in 1..Len(contexts), err \in {UndefV, ErrV("e")} :
        /\ contexts[cid].waited
        /\ ~contexts[cid].ListenerIsDone
        /\ Returns(next([World EXCEPT !.contexts = contexts,
                                      !.emissions = emissions, !.log = log],
                        cid, err),
                   [op EXCEPT !.name = "complete"])

Next ==
    \/ On
    \/ Many
    \/ After
    \/ AfterOnce
    \/ RemoveListener
    \/ RemoveAllListeners
    \/ Emit
    \/ EmitOnce
    \/ HasBeenSeen
    \/ Listeners
    \/ Complete

Spec == Init /\ [][Next]_vars

(***************************************************************************)
(* Properties.  The log is read by position: log[i] is before log[j] when  *)
(* i < j.  The emission a top-level emit starts is emission 1.             *)
(***************************************************************************)

\* C1: when emit(T) with a string T returns, it has started the listeners
\* subscribed to T in the order of their subscription, and it has started
\* each of them only after every one started before it had returned and, if
\* that one called wait('series'), had had its completion function called.
C1_InOrderOneAtATime ==
    [][(op'.name = "emit" /\ op'.type.t = "string" /\ op'.thrown = "")
         => LET regs == ListOf(simpleListeners, op'.type.s)
                IsCall(event) == event.ev = "call" /\ event.em = 1
                calls == SelectSeq(log', IsCall)
            IN  /\ Len(calls) <= Len(regs)
                /\ \A n \in 1..Len(calls) : calls[n].fn = regs[n].fn
                /\ \A i, j \in 1..Len(log') :
                     (i < j /\ IsCall(log'[i]) /\ IsCall(log'[j]))
                       => /\ \E r \in (i + 1)..(j - 1) :
                                log'[r].ev = "return" /\ log'[r].ctx = log'[i].ctx
                          /\ contexts'[log'[i].ctx].async = "series"
                               => \E d \in (i + 1)..(j - 1) :
                                     log'[d].ev = "done" /\ log'[d].ctx = log'[i].ctx
       ]_vars

\* C2: every emit(T, args...) with a string T that returns has called every
\* listener that on(T, L) subscribed and that is still subscribed, with
\* exactly args.
C2_EveryEmitDelivers ==
    [][(op'.name = "emit" /\ op'.type.t = "string" /\ op'.thrown = "")
         => \A n \in 1..Len(ListOf(simpleListeners, op'.type.s)) :
               LET listener == simpleListeners[op'.type.s][n]
               IN  listener.g = 0
                     => \E i \in 1..Len(log') :
                           /\ log'[i].ev = "call"
                           /\ log'[i].em = 1
                           /\ log'[i].fn = listener.fn
                           /\ log'[i].args = op'.args
       ]_vars

\* C3: once removeListener(T, L) has removed a listener L that on(T, L)
\* subscribed, T being a string, no emission of the string T calls L,
\* whatever is called in between, until L is subscribed to T again.
C3_RemovedNotInvoked ==
    [][\A i \in 1..Len(log') :
          (/\ log'[i].ev = "call" /\ log'[i].em > 0
           /\ contexts'[log'[i].ctx].filter = UndefV)
            => <<emissions'[log'[i].em].typeName, log'[i].fn>>
                 \notin (removed \cap removed')
       ]_vars

\* An emit('t') after A was removed from 't' that still calls B.
C3_EmitAfterRemoval ==
    /\ op.name = "emit"
    /\ op.type = StrV("t")
    /\ <<"t", "A">> \in removed
    /\ \E i \in 1..Len(log) : log[i].ev = "call" /\ log[i].em = 1 /\ log[i].fn = "B"

\* C4: a listener subscribed with once(T, L) is called by one emission of T
\* and never again, nested emissions included: every call that the closure
\* of once makes to L is its first.
C4_OnceFiresOnce ==
    \A i \in 1..Len(log) :
        (log[i].ev = "call" /\ log[i].by = "many" /\ log[i].times = 1)
          => log[i].fired = 1

\* C5: when a listener calls this.stop(), the emission goes on without
\* calling any listener after it.
C5_StopPreventsLater ==
    \A i \in 1..Len(log) :
        (log[i].ev = "call" /\ log[i].fn \in {"Xcall", "Xflag"})
          => /\ op.thrown = ""
             /\ \A j \in (i + 1)..Len(log) :
                   ~(log[j].ev = "call" /\ log[j].em = log[i].em)

\* C6: a listener of an emission that called this.wait('series') has had
\* its completion function called before the emission starts its next
\* listener.
C6_SeriesSerialize ==
    \A i, j \in 1..Len(log) :
        (/\ i < j
         /\ log[i].ev = "call" /\ log[j].ev = "call"
         /\ log[i].em > 0 /\ log[i].em = log[j].em
         /\ contexts[log[i].ctx].async = "series")
          => \E d \in (i + 1)..(j - 1) :
                log[d].ev = "done" /\ log[d].ctx = log[i].ctx

\* C7: when two listeners of an emission called this.wait('parallel') and
\* emit was given a trailing callback, the callback has been called once,
\* after both completion functions, if both have been called, and it has
\* not been called if one has not.
C7_CallbackAfterBoth ==
    \A e \in 1..Len(emissions) :
        LET waiters == {c \in 1..Len(contexts) :
                          contexts[c].em = e /\ contexts[c].async = "parallel"}
            cbs == {i \in 1..Len(log) : log[i].ev = "cb" /\ log[i].em = e}
        IN  (Cardinality(waiters) = 2 /\ IsFunction(last(emissions[e].args)))
              => IF \A c \in waiters : contexts[c].ListenerIsDone
                 THEN /\ Cardinality(cbs) = 1
                      /\ \A i \in cbs : \A c \in waiters :
                            \E d \in 1..(i - 1) :
                               log[d].ev = "done" /\ log[d].ctx = c
                 ELSE cbs = {}

\* C8: when a listener of an emission has called this.wait('series')()
\* before it returned, the emission is asynchronous, and a trailing callback
\* given to emit has been called once, with (undefined, false).
C8_SyncCompletionIsAsync ==
    \A c \in 1..Len(contexts) :
        LET e == contexts[c].em
        IN  (/\ e > 0
             /\ contexts[c].async = "series"
             /\ \E d, r \in 1..Len(log) :
                   /\ d < r
                   /\ log[d].ev = "done" /\ log[d].ctx = c
                   /\ log[r].ev = "return" /\ log[r].ctx = c)
              => /\ emissions[e].isAsync
                 /\ IsFunction(last(emissions[e].args))
                      => \E i \in 1..Len(log) :
                            /\ log[i].ev = "cb" /\ log[i].em = e
                            /\ log[i].args = <<UndefV, BoolV(FALSE)>>
                            /\ \A k \in 1..Len(log) :
                                  (log[k].ev = "cb" /\ log[k].em = e) => k = i

\* C9: after(T, L) with a string T that has been emitted calls L before it
\* returns, with a context whose past is true and with no arguments; and
\* every emit(T, args...) calls, with args, the L of every after(T, L) that
\* is still subscribed.
C9_AfterReplays ==
    [][/\ (/\ op'.name = "after" /\ op'.thrown = ""
           /\ op'.type.t = "string" /\ op'.type.s \in simpleSeen)
            => \E i \in 1..Len(log') :
                  /\ log'[i].ev = "call" /\ log'[i].em = 0
                  /\ log'[i].fn = op'.listener
                  /\ log'[i].past
                  /\ log'[i].args = <<>>
       /\ (op'.name = "emit" /\ op'.type.t = "string" /\ op'.thrown = "")
            => \A n \in 1..Len(ListOf(simpleListeners, op'.type.s)) :
                  LET listener == simpleListeners[op'.type.s][n]
                  IN  (listener.g > 0 /\ wrappers[listener.g].by = "after")
                        => \E i \in 1..Len(log') :
                              /\ log'[i].ev = "call" /\ log'[i].em = 1
                              /\ log'[i].fn = listener.fn
                              /\ log'[i].by = "after"
                              /\ ~log'[i].past
                              /\ log'[i].args = op'.args
       ]_vars

\* C10: the closure of after/afterOnce/afterMany(T, times, L) with
\* times > 0 calls L at most times times, the call after itself makes
\* included, and is no longer subscribed once it has; with times < 0 or
\* none given to after it stays subscribed; afterOnce and afterMany given
\* no times take times = 1.
C10_AfterCounts ==
    /\ \A i \in 1..Len(log) :
          (log[i].ev = "call" /\ log[i].by = "after" /\ log[i].times > 0)
            => log[i].fired <= log[i].times
    /\ \A gid \in 1..Len(wrappers) :
          (wrappers[gid].by = "after" /\ wrappers[gid].times > 0)
            => wrappers[gid].fired < wrappers[gid].times
    /\ (op.name = "after" /\ ~op.times.given /\ op.thrown = "")
         => \E gid \in 1..Len(wrappers) :
               /\ wrappers[gid].listener = op.listener
               /\ wrappers[gid].times = -1
    /\ (op.name = "afterOnce" /\ ~op.times.given /\ op.thrown = "")
         => \A i \in 1..Len(log) :
               (log[i].ev = "call" /\ log[i].em = 0) => log[i].times = 1

\* C11: for a string T, once emitOnce(T, d) has been called T counts as
\* seen and stays so; an emitOnce(T, d) made when T is seen calls no
\* listener; an emit(T, d) made when T is seen still calls every listener
\* subscribed to T, with d.
C11_EmitOnceRoundTrip ==
    [][/\ simpleSeen \subseteq simpleSeen'
       /\ (op'.name = "emitOnce" /\ op'.type.t = "string")
            => op'.type.s \in simpleSeen'
       /\ (op'.name = "emitOnce" /\ op'.type.t = "string"
           /\ op'.type.s \in simpleSeen)
            => \A i \in 1..Len(log') : log'[i].ev # "call"
       /\ (op'.name = "emit" /\ op'.type.t = "string" /\ op'.thrown = ""
           /\ op'.type.s \in simpleSeen)
            => \A n \in 1..Len(ListOf(simpleListeners, op'.type.s)) :
                  \E i \in 1..Len(log') :
                     /\ log'[i].ev = "call"
                     /\ log'[i].em = 1
                     /\ log'[i].fn = simpleListeners[op'.type.s][n].fn
                     /\ log'[i].args = op'.args
       ]_vars

\* The key-subset rule written out: every key of F is a key of G and the two
\* values are equal once numbers are read as their digits.
C12_SubsetOf(F, G) ==
    \A key \in DOMAIN F :
        key \in DOMAIN G /\ ToPrimitive(F[key]) = ToPrimitive(G[key])

\* C12: an emit(G, args...) with a filter G that returns has called a user function L if and only if L is subscribed with on(F, L) for some F whose every key G has with a loosely equal value (or is a simple listener of G's type name); every call it makes has the context's filter = G, the context's type = G's type name, and args as arguments.
C12_FilterListenerMatch ==
    [][(op'.name = "emit" /\ op'.type.t = "object" /\ op'.thrown = "")
         => /\ \A fn \in fixture.fns :
                 (\E i \in 1..Len(log') :
                     /\ log'[i].ev = "call"
                     /\ log'[i].em = 1
                     /\ log'[i].fn = fn)
                 <=> \/ \E k \in DOMAIN filterListeners :
                          \E j \in 1..Len(filterListeners[k]) :
                             /\ filterListeners[k][j].listener.fn = fn
                             /\ C12_SubsetOf(filterListeners[k][j].filter,
                                             op'.type.obj)
                     \/ /\ TypeNameOf(op'.type) # ""
                        /\ \E n \in 1..Len(ListOf(simpleListeners,
                                                  TypeNameOf(op'.type))) :
                              simpleListeners[TypeNameOf(op'.type)][n].fn = fn
            /\ \A i \in 1..Len(log') :
                 (log'[i].ev = "call" /\ log'[i].em = 1)
                 => /\ contexts'[log'[i].ctx].filter = op'.type
                    /\ contexts'[log'[i].ctx].type = TypeNameOf(op'.type)
                    /\ log'[i].args = op'.args
      ]_vars

\* An emit(G, 'x') has called a listener subscribed with a filter that is
\* not G itself.
C12_CalledThroughOtherFilter ==
    /\ op.name = "emit"
    /\ op.type.t = "object"
    /\ op.thrown = ""
    /\ \E i \in 1..Len(log) :
          /\ log[i].ev = "call"
          /\ log[i].args = X1
          /\ contexts[log[i].ctx].filter = op.type
    /\ \E k \in DOMAIN filterListeners :
          \E j \in 1..Len(filterListeners[k]) :
             /\ filterListeners[k][j].filter # op.type.obj
             /\ C12_SubsetOf(filterListeners[k][j].filter, op.type.obj)

\* C13: an emit(T, ...) of a type name T other than 'error' to which no listener is subscribed returns without throwing and calls no function, the one passed as last argument included.
C13_UnheardEmitReturns ==
    [][(/\ op'.name = "emit"
        /\ op'.type.t = "string"
        /\ op'.type.s # "error"
        /\ ListOf(simpleListeners, op'.type.s) = <<>>
        /\ ListOf(filterListeners, op'.type.s) = <<>>)
         => /\ op'.thrown = ""
            /\ \A i \in 1..Len(log') : log'[i].ev \notin {"call", "cb"}
      ]_vars

\* The same for every type name, 'error' included.
C13_AnyUnheardEmitReturns ==
    [][(/\ op'.name = "emit"
        /\ op'.type.t = "string"
        /\ ListOf(simpleListeners, op'.type.s) = <<>>
        /\ ListOf(filterListeners, op'.type.s) = <<>>)
         => /\ op'.thrown = ""
            /\ \A i \in 1..Len(log') : log'[i].ev \notin {"call", "cb"}
      ]_vars

\* An emit(T, cb) has returned while no listener is subscribed to T.
C13_UnheardEmitWithCallback ==
    /\ op.name = "emit"
    /\ op.type.t = "string"
    /\ op.type.s # "error"
    /\ op.thrown = ""
    /\ Len(op.args) > 0
    /\ IsFunction(last(op.args))
    /\ ListOf(simpleListeners, op.type.s) = <<>>
    /\ ListOf(filterListeners, op.type.s) = <<>>
    /\ \A i \in 1..Len(log) : log[i].ev \notin {"call", "cb"}

\* C14: an emit('error', e) made while no listener is subscribed to 'error' throws, and calls nothing: it throws e when e is an Error and a TypeError otherwise (no e given included); made while a listener is subscribed to 'error', it calls every such listener with the arguments given and, none of them throwing, returns.
C14_ErrorEventThrows ==
    [][(op'.name = "emit" /\ op'.type = StrV("error"))
         => IF ListOf(simpleListeners, "error") = <<>>
            THEN /\ op'.thrown = IF Len(op'.args) > 0 /\ op'.args[1].t = "error"
                                 THEN op'.args[1].s
                                 ELSE "TypeError"
                 /\ \A i \in 1..Len(log') : log'[i].ev \notin {"call", "cb"}
            ELSE /\ op'.thrown = ""
                 /\ \A n \in 1..Len(simpleListeners["error"]) :
                       \E i \in 1..Len(log') :
                          /\ log'[i].ev = "call"
                          /\ log'[i].em = 1
                          /\ log'[i].fn = simpleListeners["error"][n].fn
                          /\ log'[i].args = op'.args
      ]_vars

\* emit('error', e) has thrown the Error e it was given.
C14_ErrorItselfThrown ==
    /\ op.name = "emit"
    /\ op.type = StrV("error")
    /\ Len(op.args) = 1
    /\ op.args[1] = ErrV("e")
    /\ op.thrown = "e"
    /\ ListOf(simpleListeners, "error") = <<>>

\* C15: on, many, after and afterOnce called with a listener that is not a function throw a TypeError, leave simpleListeners, filterListeners, listenTypes, simpleSeen and filterSeen as they were, and emit nothing, no newListener event either.
C15_NonCallableRejected ==
    [][(/\ op'.name \in {"on", "many", "after", "afterOnce"}
        /\ op'.listener = NotAFunction)
         => /\ op'.thrown = "TypeError"
            /\ simpleListeners' = simpleListeners
            /\ filterListeners' = filterListeners
            /\ listenTypes' = listenTypes
            /\ simpleSeen' = simpleSeen
            /\ filterSeen' = filterSeen
            /\ log' = <<>>
      ]_vars

\* A subscription of a non-function has thrown on an emitter that has a
\* listener for newListener.
C15_RejectedWhileNotifying ==
    /\ op.name \in {"on", "many", "after", "afterOnce"}
    /\ op.listener = NotAFunction
    /\ op.thrown = "TypeError"
    /\ Len(ListOf(simpleListeners, "newListener")) > 0
    /\ log = <<>>

\* C16: an emit(T, ..., cb) that finds listeners, each of which returns without having called this.wait, and whose last argument cb is a function, does not throw and has called cb, once, with two arguments (the error, the stop flag).
C16_SyncEmissionCallsBack ==
    [][(/\ op'.name = "emit"
        /\ Len(op'.args) > 0
        /\ IsFunction(last(op'.args))
        /\ Len(emissions') > 0
        /\ \A c \in 1..Len(contexts') : ~contexts'[c].waited
        /\ \A i \in 1..Len(log') :
              log'[i].ev = "call"
              => \E j \in i + 1..Len(log') :
                    log'[j].ev = "return" /\ log'[j].ctx = log'[i].ctx)
         => /\ op'.thrown = ""
            /\ Cardinality({i \in 1..Len(log') :
                              /\ log'[i].ev = "cb"
                              /\ log'[i].em = 1
                              /\ log'[i].fn = last(op'.args).s
                              /\ Len(log'[i].args) = 2}) = 1
      ]_vars

\* C17: once every listener of an emission with a callback as last argument that called this.wait has called its completion function, each error that was passed to a completion function is the first argument of a call of the callback, alone or as a member of the pair.
C17_ReportedErrorsReachCallback ==
    [][(/\ op'.name = "complete"
        /\ Len(emissions') > 0
        /\ IsFunction(last(emissions'[1].args))
        /\ \A c \in 1..Len(contexts') :
              contexts'[c].waited => contexts'[c].ListenerIsDone)
         => \A c \in 1..Len(contexts') :
               (contexts'[c].em = 1 /\ contexts'[c].err.t = "error")
               => \E i \in 1..Len(log') :
                     /\ log'[i].ev = "cb"
                     /\ log'[i].em = 1
                     /\ Len(log'[i].args) > 0
                     /\ \/ log'[i].args[1] = contexts'[c].err
                        \/ /\ log'[i].args[1].t = "array"
                           /\ \E n \in 1..Len(log'[i].args[1].obj) :
                                 log'[i].args[1].obj[n] = contexts'[c].err.s
      ]_vars

\* C18: for every type name T, hasBeenSeen(T) is true after a call if and only if it was true before it or the call has called emit with T or with a filter whose type name is T: no call that does not emit changes it.
C18_SeenIffEmitted ==
    [][\A n \in 1..Len(TypeNames) :
          hasBeenSeen(World, StrV(TypeNames[n]))'
          <=> \/ hasBeenSeen(World, StrV(TypeNames[n]))
              \/ \E i \in 1..Len(log') :
                    log'[i].ev = "emit" /\ log'[i].fn = TypeNames[n]
      ]_vars

\* C19: hasBeenSeen(F) for a filter F returns true only if this.filterSeen holds the filter of an earlier emission that is compatible with F under the key-subset rule (every key of the one has a loosely equal value in the other).
C19_FilterSeenOnlyIfEmitted ==
    (op.name = "hasBeenSeen" /\ op.type.t = "object" /\ op.result)
    => \E n \in 1..Len(filterSeen) :
          \/ C12_SubsetOf(op.type.obj, filterSeen[n])
          \/ C12_SubsetOf(filterSeen[n], op.type.obj)

\* The user functions that emission em has called, in the order of the calls.
C20_CalledBy(theLog, em) ==
    LET IsCall(e) == e.ev = "call" /\ e.em = em
        calls == SelectSeq(theLog, IsCall)
    IN  [i \in 1..Len(calls) |-> calls[i].fn]

\* C20: an emit that returns has called the listeners that matched when emit was called, each as many times as it matched then and in that order, whatever listeners were removed or added by the listeners it called (a closure of once or after removing itself, a listener removing a later one): a listener removed during the emission is still called, one added during it is not.
C20_EmissionCallsSnapshot ==
    [][(op'.name = "emit" /\ op'.thrown = "")
         => LET list == queryListeners(World, op'.type).list
            IN  C20_CalledBy(log', 1) = [k \in 1..Len(list) |-> list[k].fn]
      ]_vars

\* An emit has called R and then B, which R had removed, and B is no
\* longer subscribed.
C20_RemovedLaterListenerCalled ==
    /\ op.name = "emit"
    /\ op.thrown = ""
    /\ \E i, j \in 1..Len(log) :
          /\ i < j
          /\ log[i].ev = "call" /\ log[i].em = 1 /\ log[i].fn = "R"
          /\ log[j].ev = "call" /\ log[j].em = 1 /\ log[j].fn = "B"
    /\ \A n \in 1..Len(ListOf(simpleListeners, "t")) :
          simpleListeners["t"][n].fn # "B"

\* C21: an emit of a filter object G, with a type or without one, that returns has called every listener subscribed with a filter that has no string type and whose every key G has with a loosely equal value; an emit of a string calls no listener subscribed with a filter.
C21_NamelessFilterCandidate ==
    [][(op'.name = "emit" /\ op'.thrown = "")
         => \A j \in 1..Len(ListOf(filterListeners, "")) :
               LET entry == filterListeners[""][j]
                   called == \E i \in 1..Len(log') :
                                /\ log'[i].ev = "call"
                                /\ log'[i].em = 1
                                /\ log'[i].fn = entry.listener.fn
                                /\ log'[i].args = op'.args
               IN  IF op'.type.t = "object"
                   THEN C12_SubsetOf(entry.filter, op'.type.obj) => called
                   ELSE ListOf(simpleListeners, op'.type.s) = <<>> => ~called
      ]_vars

\* The same for an emit of a string T as for an emit of a filter: a listener subscribed with a filter without a string type, none of whose keys the emission fails to match, is called.
C21_NamelessFilterAnyEmission ==
    [][(op'.name = "emit" /\ op'.thrown = "")
         => \A j \in 1..Len(ListOf(filterListeners, "")) :
               LET entry == filterListeners[""][j]
                   emitted == IF op'.type.t = "object" THEN op'.type.obj
                              ELSE [type |-> op'.type.s]
               IN  C12_SubsetOf(entry.filter, emitted)
                   => \E i \in 1..Len(log') :
                         /\ log'[i].ev = "call"
                         /\ log'[i].em = 1
                         /\ log'[i].fn = entry.listener.fn
                         /\ log'[i].args = op'.args
      ]_vars

\* An emit of a filter with the type 't' has called a listener subscribed
\* with a filter without a type.
C21_NamelessCalledForTyped ==
    /\ op.name = "emit"
    /\ op.type.t = "object"
    /\ TypeNameOf(op.type) = "t"
    /\ op.thrown = ""
    /\ Len(ListOf(filterListeners, "")) > 0
    /\ \E i \in 1..Len(log) : log[i].ev = "call" /\ log[i].em = 1

\* A list of listeners or of filter entries without the numbers of the
\* closures: the user function, whether a closure of many or after is around
\* it, and the filter it is subscribed with.
C22_Shape(list, filtered) ==
    [j \in 1..Len(list) |->
        IF filtered
        THEN [fn |-> list[j].listener.fn, wrapped |-> list[j].listener.g > 0,
              filter |-> list[j].filter]
        ELSE [fn |-> list[j].fn, wrapped |-> list[j].g > 0, filter |-> <<>>]]

\* C22: a removeListener(F, L) with a filter F that returns leaves, under F's type name, the entries that it found there other than those whose listener is L or a closure around L and whose filter is F or has every key loosely equal in F, in the order they were in; the entries under every other type name and all simple listeners are as they were.
C22_RemovesExactlyMatching ==
    [][(op'.name = "removeListener" /\ op'.type.t = "object" /\ op'.thrown = "")
         => LET Stays(entry) ==
                    ~(/\ entry.listener.fn = op'.listener
                      /\ \/ entry.filter = op'.type.obj
                         \/ C12_SubsetOf(entry.filter, op'.type.obj))
            IN  \A n \in 1..Len(TypeNames) :
                   /\ C22_Shape(ListOf(filterListeners', TypeNames[n]), TRUE)
                        = C22_Shape(
                            IF TypeNames[n] = TypeNameOf(op'.type)
                            THEN SelectSeq(ListOf(filterListeners, TypeNames[n]), Stays)
                            ELSE ListOf(filterListeners, TypeNames[n]), TRUE)
                   /\ C22_Shape(ListOf(simpleListeners', TypeNames[n]), FALSE)
                        = C22_Shape(ListOf(simpleListeners, TypeNames[n]), FALSE)
      ]_vars

\* removeListener(F, L) has removed an entry and has left one of another
\* listener under the same type name.
C22_RemovedOneLeftOne ==
    /\ op.name = "removeListener"
    /\ op.type.t = "object"
    /\ op.thrown = ""
    /\ Len(Registered(World)) < op.before
    /\ \E j \in 1..Len(ListOf(filterListeners, TypeNameOf(op.type))) :
          filterListeners[TypeNameOf(op.type)][j].listener.fn # op.listener

\* C23: a removeAllListeners(T) with a string T that returns leaves no simple listener under T and no filter entry whose filter has the type T; the simple listeners of every other type name, and the filter entries whose filter has no type T (those under the empty type name among them), are as they were and in the same order.
C23_RemoveAllOfType ==
    [][(op'.name = "removeAllListeners" /\ op'.type.t = "string" /\ op'.thrown = "")
         => LET T == op'.type.s
                Other(entry) == ~("type" \in DOMAIN entry.filter
                                  /\ entry.filter["type"] = T)
            IN  /\ ListOf(simpleListeners', T) = <<>>
                /\ \A n \in 1..Len(TypeNames) :
                      /\ C22_Shape(ListOf(filterListeners', TypeNames[n]), TRUE)
                           = C22_Shape(SelectSeq(ListOf(filterListeners, TypeNames[n]),
                                                 Other), TRUE)
                      /\ TypeNames[n] # T
                           => C22_Shape(ListOf(simpleListeners', TypeNames[n]), FALSE)
                                = C22_Shape(ListOf(simpleListeners, TypeNames[n]), FALSE)
      ]_vars

\* C24: an on, many or after call with a function L that returns has called each listener subscribed to 'newListener' when the call was made exactly once per subscription, with the arguments (type, L itself and not the closure made around it, the type name), and at a moment when the registry did not hold the new entry yet (it held no more listeners than before the call); when no listener is subscribed to 'newListener', the one being subscribed included, no listener is notified.
C24_NewListenerNotified ==
    [][(/\ op'.name \in {"on", "many", "after"}
        /\ op'.listener # NotAFunction
        /\ op'.thrown = "")
         => LET list == ListOf(simpleListeners, "newListener")
                expected == <<op'.type, FnV(op'.listener, 0),
                              StrV(TypeNameOf(op'.type))>>
                IsNotice(e) == /\ e.ev = "call"
                               /\ e.em > 0
                               /\ contexts'[e.ctx].type = "newListener"
                notices == SelectSeq(log', IsNotice)
            IN  /\ Len(notices) = Len(list)
                /\ \A n \in 1..Len(list) :
                      /\ notices[n].fn = list[n].fn
                      /\ notices[n].args = expected
                /\ \A i \in 1..Len(log') :
                      (/\ log'[i].ev = "held"
                       /\ log'[i].em > 0
                       /\ contexts'[log'[i].ctx].type = "newListener")
                      => log'[i].times <= Len(Registered(World))
      ]_vars

\* A closure of many has been subscribed to 'u' and the listener of
\* 'newListener' has been called with the function it is around, while the
\* registry held one listener.
C24_NotifiedOfOriginal ==
    /\ op.name = "many"
    /\ op.type = StrV("u")
    /\ op.thrown = ""
    /\ Len(Registered(World)) = 2
    /\ \E i, j \in 1..Len(log) :
          /\ i < j
          /\ log[i].ev = "call" /\ log[i].em = 1 /\ log[i].fn = "W"
          /\ log[i].args = <<StrV("u"), FnV("W", 0), StrV("u")>>
          /\ log[j].ev = "held" /\ log[j].em = 1 /\ log[j].times = 1

\* C25: every call of emit, whether it finds listeners or not and whether it throws or not, leaves its type name in simpleSeen and, when its type is a filter, that filter appended to filterSeen; no call takes a type name out of simpleSeen, and filterSeen after a call begins with filterSeen as it was before.
C25_SeenOnlyGrows ==
    [][/\ simpleSeen \subseteq simpleSeen'
       /\ Len(filterSeen) <= Len(filterSeen')
       /\ SubSeq(filterSeen', 1, Len(filterSeen)) = filterSeen
       /\ op'.name = "emit"
            => /\ TypeNameOf(op'.type) \in simpleSeen'
               /\ op'.type.t = "object"
                    => /\ Len(filterSeen') > Len(filterSeen)
                       /\ filterSeen'[Len(filterSeen) + 1] = op'.type.obj
      ]_vars

\* An emit of a filter that found no listener has left the filter in
\* filterSeen and its type name in simpleSeen.
C25_UnheardFilterSeen ==
    /\ op.name = "emit"
    /\ op.type.t = "object"
    /\ \A i \in 1..Len(log) : log[i].ev # "call"
    /\ Len(filterSeen) > 0
    /\ last(filterSeen) = op.type.obj
    /\ TypeNameOf(op.type) \in simpleSeen

\* C26: an after(T, L) that returns on an emitter on which nothing has been emitted or queried yet (simpleSeen and filterSeen are empty), T being neither 'newListener' nor a filter of that type name, makes no call with a context from the past: L is not called before after returns.
C26_AfterUnseenNotCalled ==
    [][(/\ op'.name = "after"
        /\ op'.thrown = ""
        /\ TypeNameOf(op'.type) # "newListener"
        /\ simpleSeen = {}
        /\ filterSeen = <<>>)
         => \A i \in 1..Len(log') : ~(log'[i].ev = "call" /\ log'[i].past)
      ]_vars

\* C27: in every reachable state this.listenTypes holds no type name twice, and queryListeners of a filter of the registry's universe returns no more listeners than the registry holds entries it can return: the filter listeners, and the simple listeners of the filter's type name.
C27_ListenTypesDistinct ==
    /\ \A i, j \in 1..Len(listenTypes) :
          listenTypes[i] = listenTypes[j] => i = j
    /\ \A type \in fixture.types :
          type.t = "object"
          => LET typeName == TypeNameOf(type)
                 entries == ConcatAll([n \in 1..Len(TypeNames) |->
                                         ListOf(filterListeners, TypeNames[n])])
                 simple == IF typeName = "" THEN <<>>
                           ELSE ListOf(simpleListeners, typeName)
             IN  Len(queryListeners(World, type).list)
                   <= Len(entries) + Len(simple)

====
